---- MODULE Spec2Model ----
(***************************************************************************)
(* express-service-proxy: the circuit breaker (lib/circuitBreaker.js), the *)
(* load balancer (lib/loadBalancer.js) and the service proxy that wires    *)
(* them to the forwarding engine (lib/proxy.js).                           *)
(*                                                                         *)
(* Three specifications share the pure operators below:                    *)
(*   SpecCB  one CircuitBreaker object driven by arbitrary method calls    *)
(*   SpecLB  one LoadBalancer object driven by arbitrary method calls      *)
(*   Spec    a ServiceProxy: registry, routing handlers, requests in       *)
(*           flight, the health endpoint and the clock                     *)
(***************************************************************************)
EXTENDS Integers, Sequences, FiniteSets, TLC

VARIABLES
    now,        \* Date.now(), in abstract time units
    cb,         \* SpecCB: the CircuitBreaker object
    cbOp,       \* SpecCB: the last call made on cb: [op, pre, ret]
    hist,       \* SpecCB: recordFailure "F" / recordSuccess "S" calls since
                \*         construction or reset(), and "H" for each
                \*         transition to HALF_OPEN
    lb,         \* SpecLB: the LoadBalancer object
    lbOp,       \* SpecLB: the last call made on lb: [op, arg, ret, pre],
                \*         pre being the load balancer before the call
    calls,      \* SpecLB: [start, rets]: the cursor before, and the targets
                \*         returned by, the getNextTarget calls made since
                \*         the last construction / addTarget / removeTarget
    services,   \* Spec: ServiceProxy.services, name -> entry id (0: absent)
    entries,    \* Spec: the service entry objects ever created, by id
    handlers,   \* Spec: ids of the entries a routing handler is bound to
    inflight,   \* Spec: requests handed to the forwarding engine, in the
                \*       order the router let them through
    failRun,    \* Spec: per entry, the forwarded requests that failed since
                \*       the last one that succeeded
    last        \* Spec: what the last step did and answered

cbVars == <<cb, cbOp, hist>>
lbVars == <<lb, lbOp, calls>>
pxVars == <<services, entries, handlers, inflight, failRun, last>>
vars   == <<now, cb, cbOp, hist, lb, lbOp, calls,
            services, entries, handlers, inflight, failRun, last>>

(***************************************************************************)
(* Bounds of the model                                                     *)
(***************************************************************************)
MaxTime == 5
MaxHist == 5
MaxTargets == 2
MaxCalls == 4
MaxConn == 2
MaxInFlight == 2
MaxEntries == 2
MaxRegistryTime == 3

(***************************************************************************)
(* JavaScript values                                                       *)
(***************************************************************************)
\* null, and a number n as <<n>>: lastFailureTime is null or a timestamp.
Null == <<>>
Num(n) == <<n>>
\* ToNumber, as the subtraction in isOpen applies it: null is 0.
ToNumber(v) == IF v = Null THEN 0 ELSE v[1]
\* a || b on numbers: 0 (like undefined) is falsy.
OrDefault(a, b) == IF a = 0 THEN b ELSE a

(***************************************************************************)
(* lib/circuitBreaker.js                                                   *)
(***************************************************************************)
DefaultFailureThreshold == 5
DefaultResetTimeout == 30000
DefaultHalfOpenSuccessThreshold == 3

\* constructor(options): an option left out is 0 here.
CircuitBreaker(options) ==
    [ state                    |-> "CLOSED",
      failureCount             |-> 0,
      successCount             |-> 0,
      lastFailureTime          |-> Null,
      failureThreshold         |-> OrDefault(options.failureThreshold,
                                             DefaultFailureThreshold),
      resetTimeout             |-> OrDefault(options.resetTimeout,
                                             DefaultResetTimeout),
      halfOpenSuccessThreshold |-> OrDefault(options.halfOpenSuccessThreshold,
                                             DefaultHalfOpenSuccessThreshold) ]

transitionToOpen(b) ==
    [b EXCEPT !.state = "OPEN", !.successCount = 0]

transitionToHalfOpen_clearsFailureCount(b) ==
    [b EXCEPT !.state = "HALF_OPEN", !.successCount = 0, !.failureCount = 0]

transitionToHalfOpen(b) ==
    [b EXCEPT !.state = "HALF_OPEN", !.successCount = 0]

transitionToClosed_keepsSuccessCount(b) ==
    [b EXCEPT !.state = "CLOSED", !.failureCount = 0]

transitionToClosed(b) ==
    [b EXCEPT !.state = "CLOSED", !.failureCount = 0, !.successCount = 0]

isOpen_noTransition(b, t) ==
    [cb |-> b, ret |-> (b.state = "OPEN")]

isOpen_atTimeout(b, t) ==
    LET b1 == IF b.state = "OPEN"
                 /\ (t - ToNumber(b.lastFailureTime)) >= b.resetTimeout
              THEN transitionToHalfOpen(b)
              ELSE b
    IN  [cb |-> b1, ret |-> (b1.state = "OPEN")]

\* isOpen() at clock reading t: the breaker after the call and the result.
isOpen(b, t) ==
    LET b1 == IF b.state = "OPEN"
                 /\ (t - ToNumber(b.lastFailureTime)) > b.resetTimeout
              THEN transitionToHalfOpen(b)
              ELSE b
    IN  [cb |-> b1, ret |-> (b1.state = "OPEN")]

recordFailure_ignoredWhenOpen(b, t) ==
    LET b1 == [b EXCEPT !.lastFailureTime = Num(t),
                        !.failureCount = @ + 1,
                        !.successCount = 0]
    IN  IF b.state = "OPEN"
        THEN b
        ELSE IF b1.state = "CLOSED" /\ b1.failureCount >= b1.failureThreshold
        THEN transitionToOpen(b1)
        ELSE IF b1.state = "HALF_OPEN"
             THEN transitionToOpen(b1)
             ELSE b1

recordFailure_aboveThreshold(b, t) ==
    LET b1 == [b EXCEPT !.lastFailureTime = Num(t),
                        !.failureCount = @ + 1,
                        !.successCount = 0]
    IN  IF b1.state = "CLOSED" /\ b1.failureCount > b1.failureThreshold
        THEN transitionToOpen(b1)
        ELSE IF b1.state = "HALF_OPEN"
             THEN transitionToOpen(b1)
             ELSE b1

recordFailure_halfOpenCounts(b, t) ==
    LET b1 == [b EXCEPT !.lastFailureTime = Num(t),
                        !.failureCount = @ + 1,
                        !.successCount = 0]
    IN  IF b1.state \in {"CLOSED", "HALF_OPEN"}
           /\ b1.failureCount >= b1.failureThreshold
        THEN transitionToOpen(b1)
        ELSE b1

\* recordFailure() at clock reading t.
recordFailure(b, t) ==
    LET b1 == [b EXCEPT !.lastFailureTime = Num(t),
                        !.failureCount = @ + 1,
                        !.successCount = 0]
    IN  IF b1.state = "CLOSED" /\ b1.failureCount >= b1.failureThreshold
        THEN transitionToOpen(b1)
        ELSE IF b1.state = "HALF_OPEN"
             THEN transitionToOpen(b1)
             ELSE b1

recordSuccess_keepsFailureCount(b) ==
    IF b.state = "HALF_OPEN"
    THEN LET b2 == [b EXCEPT !.successCount = @ + 1]
         IN  IF b2.successCount >= b2.halfOpenSuccessThreshold
             THEN transitionToClosed(b2)
             ELSE b2
    ELSE b

recordSuccess_countsWhenOpen(b) ==
    LET b1 == [b EXCEPT !.failureCount = 0]
    IN  IF b1.state # "CLOSED"
        THEN LET b2 == [b1 EXCEPT !.successCount = @ + 1]
             IN  IF b2.successCount >= b2.halfOpenSuccessThreshold
                 THEN transitionToClosed(b2)
                 ELSE b2
        ELSE b1

recordSuccess(b) ==
    LET b1 == [b EXCEPT !.failureCount = 0]
    IN  IF b1.state = "HALF_OPEN"
        THEN LET b2 == [b1 EXCEPT !.successCount = @ + 1]
             IN  IF b2.successCount >= b2.halfOpenSuccessThreshold
                 THEN transitionToClosed(b2)
                 ELSE b2
        ELSE b1

reset_keepsFailureCount(b) ==
    [b EXCEPT !.state = "CLOSED", !.successCount = 0,
              !.lastFailureTime = Null]

reset(b) ==
    [b EXCEPT !.state = "CLOSED", !.failureCount = 0, !.successCount = 0,
              !.lastFailureTime = Null]

getState(b) ==
    [ state           |-> b.state,
      failureCount    |-> b.failureCount,
      successCount    |-> b.successCount,
      lastFailureTime |-> b.lastFailureTime ]

(***************************************************************************)
(* lib/loadBalancer.js                                                     *)
(*                                                                         *)
(* A LoadBalancer is [targets, strategy, currentIndex, connectionCounts].  *)
(* connectionCounts is a function from the addresses that have a counter;  *)
(* a counter is a number or NaN.                                           *)
(***************************************************************************)
\* What ++ makes of a counter that does not exist (undefined + 1).
NaN == -1

\* this.connectionCounts[t] as a number: a missing counter reads undefined,
\* which compares and increments as NaN.
Count(l, t) ==
    IF t \in DOMAIN l.connectionCounts THEN l.connectionCounts[t] ELSE NaN

\* x < y and x > y on numbers: false when either side is NaN.
Less(x, y) == x # NaN /\ y # NaN /\ x < y
Greater(x, y) == x # NaN /\ y # NaN /\ x > y

\* x++ on a counter.
Increment(x) == IF x = NaN THEN NaN ELSE x + 1

\* this.targets[i], 0-indexed; a read past the end is undefined.
TargetAt(l, i) ==
    IF i + 1 \in DOMAIN l.targets THEN l.targets[i + 1] ELSE "undefined"

\* f with f[t] set to v, the key added when missing.
SetCount(f, t, v) ==
    [x \in (DOMAIN f) \cup {t} |-> IF x = t THEN v ELSE f[x]]

\* delete f[t]
DeleteCount(f, t) == [x \in (DOMAIN f) \ {t} |-> f[x]]

\* this.targets.indexOf(t), 0-indexed, -1 when absent.
IndexOf(s, t) ==
    IF \E i \in DOMAIN s : s[i] = t
    THEN (CHOOSE i \in DOMAIN s : s[i] = t /\ \A j \in 1..(i - 1) : s[j] # t) - 1
    ELSE -1

\* this.targets.splice(i, 1), i 0-indexed.
Splice(s, i) == SubSeq(s, 1, i) \o SubSeq(s, i + 2, Len(s))

\* constructor(targets, strategy)
LoadBalancer(targets, strategy) ==
    [ targets          |-> targets,
      strategy         |-> strategy,
      currentIndex     |-> 0,
      connectionCounts |-> [t \in {targets[i] : i \in DOMAIN targets} |-> 0] ]

getRoundRobinTarget_afterAdvance(l) ==
    LET l1 == [l EXCEPT !.currentIndex = (l.currentIndex + 1) % Len(l.targets)]
    IN  [ lb |-> l1, ret |-> TargetAt(l1, l1.currentIndex) ]

getRoundRobinTarget_cursorKept(l) ==
    [ lb  |-> l,
      ret |-> TargetAt(l, l.currentIndex) ]

getRoundRobinTarget(l) ==
    [ lb  |-> [l EXCEPT !.currentIndex = (l.currentIndex + 1) % Len(l.targets)],
      ret |-> TargetAt(l, l.currentIndex) ]

\* r: the index Math.floor(Math.random() * length) yields.
getRandomTarget(l, r) ==
    [ lb |-> l, ret |-> TargetAt(l, r) ]

RECURSIVE LeastFrom(_, _, _)
\* The reduce of getLeastConnectionsTarget from list position i (1-indexed)
\* on, with accumulator min.
LeastFrom(l, i, min) ==
    IF i > Len(l.targets)
    THEN min
    ELSE LeastFrom(l, i + 1,
                   IF Less(Count(l, l.targets[i]), Count(l, min))
                   THEN l.targets[i]
                   ELSE min)

getLeastConnectionsTarget(l) ==
    LET target == LeastFrom(l, 1, TargetAt(l, 0))
    IN  [ lb  |-> [l EXCEPT !.connectionCounts =
                       SetCount(@, target, Increment(Count(l, target)))],
          ret |-> target ]

\* getNextTarget(): [lb, ret, threw]; r is the random strategy's draw.
getNextTarget_alwaysByStrategy(l, r) ==
    IF Len(l.targets) = 0
    THEN [lb |-> l, ret |-> "", threw |-> TRUE]
    ELSE LET res == CASE l.strategy = "random" -> getRandomTarget(l, r)
                      [] l.strategy = "least-connections" ->
                             getLeastConnectionsTarget(l)
                      [] OTHER -> getRoundRobinTarget(l)
         IN  [lb |-> res.lb, ret |-> res.ret, threw |-> FALSE]

getNextTarget(l, r) ==
    IF Len(l.targets) = 0
    THEN [lb |-> l, ret |-> "", threw |-> TRUE]
    ELSE IF Len(l.targets) = 1
    THEN [lb |-> l, ret |-> TargetAt(l, 0), threw |-> FALSE]
    ELSE LET res == CASE l.strategy = "random" -> getRandomTarget(l, r)
                      [] l.strategy = "least-connections" ->
                             getLeastConnectionsTarget(l)
                      [] OTHER -> getRoundRobinTarget(l)
         IN  [lb |-> res.lb, ret |-> res.ret, threw |-> FALSE]

releaseConnection(l, t) ==
    IF Greater(Count(l, t), 0)
    THEN [l EXCEPT !.connectionCounts = SetCount(@, t, Count(l, t) - 1)]
    ELSE l

addTarget(l, t) ==
    IF IndexOf(l.targets, t) = -1
    THEN [l EXCEPT !.targets = Append(@, t),
                   !.connectionCounts = SetCount(@, t, 0)]
    ELSE l

removeTarget_clampsPastEnd(l, t) ==
    LET index == IndexOf(l.targets, t)
    IN  IF index # -1
        THEN LET l1 == [l EXCEPT !.targets = Splice(@, index),
                                 !.connectionCounts = DeleteCount(@, t)]
             IN  IF l1.currentIndex > Len(l1.targets)
                 THEN [l1 EXCEPT !.currentIndex = 0]
                 ELSE l1
        ELSE l

removeTarget(l, t) ==
    LET index == IndexOf(l.targets, t)
    IN  IF index # -1
        THEN LET l1 == [l EXCEPT !.targets = Splice(@, index),
                                 !.connectionCounts = DeleteCount(@, t)]
             IN  IF l1.currentIndex >= Len(l1.targets)
                 THEN [l1 EXCEPT !.currentIndex = 0]
                 ELSE l1
        ELSE l

getTargets(l) == l.targets

(***************************************************************************)
(* lib/proxy.js                                                            *)
(*                                                                         *)
(* ServiceProxy.services maps a name to a service entry                    *)
(* [targets, loadBalancer, circuitBreaker]; a routing handler keeps the    *)
(* entry it was created for.                                               *)
(***************************************************************************)
ProxyDefaultFailureThreshold == 5
ProxyDefaultResetTimeout == 30000

\* What registerService stores under the name; targets is the caller's
\* array. In options, "" and 0 stand for an option that is left out.
ServiceEntry(targets, options) ==
    [ targets        |-> targets,
      loadBalancer   |-> LoadBalancer(targets,
                             IF options.loadBalancingStrategy = ""
                             THEN "round-robin"
                             ELSE options.loadBalancingStrategy),
      circuitBreaker |-> CircuitBreaker(
                             [ failureThreshold |->
                                   OrDefault(options.circuitBreaker.failureThreshold,
                                             ProxyDefaultFailureThreshold),
                               resetTimeout |->
                                   OrDefault(options.circuitBreaker.resetTimeout,
                                             ProxyDefaultResetTimeout),
                               halfOpenSuccessThreshold |->
                                   options.circuitBreaker.halfOpenSuccessThreshold ]) ]

\* A value passed as the targets argument: an array with its elements, or a
\* value that is not an array (undefined, a string).
Array(items) == [isArray |-> TRUE, items |-> items]
NotAnArray == [isArray |-> FALSE, items |-> <<>>]

registerServiceThrows_lengthUnchecked(targets) == ~targets.isArray

\* registerService(name, targets, options) throws when targets is not an
\* array or is an empty array.
registerServiceThrows(targets) == ~targets.isArray \/ Len(targets.items) = 0

\* error.statusCode of the router's circuit-open error, and the status
\* onError answers with.
ServiceUnavailable == 503

router_selectsBeforeGate(service, t, r) ==
    LET g == getNextTarget(service.loadBalancer, r)
        o == isOpen(service.circuitBreaker, t)
        s1 == [service EXCEPT !.circuitBreaker = o.cb,
                              !.loadBalancer = g.lb]
    IN  IF o.ret
        THEN [ service |-> s1, threw |-> TRUE, target |-> "",
               statusCode |-> ServiceUnavailable, error |-> "circuit open" ]
        ELSE IF g.threw
        THEN [ service |-> s1, threw |-> TRUE, target |-> "",
               statusCode |-> 0, error |-> "no targets" ]
        ELSE [ service |-> s1, threw |-> FALSE, target |-> g.ret,
               statusCode |-> 0, error |-> "" ]

\* router(req) of the handler bound to service, at clock reading t, r the
\* random strategy's draw: the entry afterwards, and the target or the error
\* thrown (statusCode 0: the error carries none).
router(service, t, r) ==
    LET o == isOpen(service.circuitBreaker, t)
        s1 == [service EXCEPT !.circuitBreaker = o.cb]
    IN  IF o.ret
        THEN [ service |-> s1, threw |-> TRUE, target |-> "",
               statusCode |-> ServiceUnavailable, error |-> "circuit open" ]
        ELSE LET g == getNextTarget(s1.loadBalancer, r)
             IN  IF g.threw
                 THEN [ service |-> s1, threw |-> TRUE, target |-> "",
                        statusCode |-> 0, error |-> "no targets" ]
                 ELSE [ service |-> [s1 EXCEPT !.loadBalancer = g.lb],
                        threw |-> FALSE, target |-> g.ret,
                        statusCode |-> 0, error |-> "" ]

\* onError(err, req, res, target) at clock reading t: the entry afterwards,
\* the breaker methods called and the status sent to the caller.
onError(service, target, t) ==
    [ service |-> IF target # ""
                  THEN [service EXCEPT !.circuitBreaker = recordFailure(@, t)]
                  ELSE service,
      calls   |-> IF target # "" THEN <<"recordFailure">> ELSE <<>>,
      status  |-> ServiceUnavailable ]

onProxyRes_offByOne(service, statusCode, t) ==
    IF statusCode <= 500
    THEN [ service |-> [service EXCEPT !.circuitBreaker = recordSuccess(@)],
           calls   |-> <<"recordSuccess">>,
           status  |-> statusCode ]
    ELSE [ service |-> [service EXCEPT !.circuitBreaker = recordFailure(@, t)],
           calls   |-> <<"recordFailure">>,
           status  |-> statusCode ]

onProxyRes_masksServerErrors(service, statusCode, t) ==
    IF statusCode < 500
    THEN [ service |-> [service EXCEPT !.circuitBreaker = recordSuccess(@)],
           calls   |-> <<"recordSuccess">>,
           status  |-> statusCode ]
    ELSE [ service |-> [service EXCEPT !.circuitBreaker = recordFailure(@, t)],
           calls   |-> <<"recordFailure">>,
           status  |-> ServiceUnavailable ]

\* onProxyRes(proxyRes, req, res) at clock reading t.
onProxyRes(service, statusCode, t) ==
    IF statusCode < 500
    THEN [ service |-> [service EXCEPT !.circuitBreaker = recordSuccess(@)],
           calls   |-> <<"recordSuccess">>,
           status  |-> statusCode ]
    ELSE [ service |-> [service EXCEPT !.circuitBreaker = recordFailure(@, t)],
           calls   |-> <<"recordFailure">>,
           status  |-> statusCode ]

healthOf_halfOpenDown(service, t) ==
    LET o == isOpen(service.circuitBreaker, t)
    IN  [ service |-> [service EXCEPT !.circuitBreaker = o.cb],
          report  |-> [ status       |-> IF o.cb.state # "CLOSED"
                                         THEN "DOWN" ELSE "UP",
                        targets      |-> service.targets,
                        circuitState |-> getState(o.cb) ] ]

\* One service's part of the health middleware's answer, and its breaker
\* after the isOpen() call that computes it.
healthOf(service, t) ==
    LET o == isOpen(service.circuitBreaker, t)
    IN  [ service |-> [service EXCEPT !.circuitBreaker = o.cb],
          report  |-> [ status       |-> IF o.ret THEN "DOWN" ELSE "UP",
                        targets      |-> service.targets,
                        circuitState |-> getState(o.cb) ] ]

(***************************************************************************)
(* SpecCB: one breaker, any sequence of calls, the clock advancing         *)
(***************************************************************************)
\* The options a breaker is constructed with (0: the option is left out).
FailureThresholdOptions == {0, 1, 2, 3}
ResetTimeoutOptions == {1, 2}
HalfOpenSuccessThresholdOptions == {0, 1, 2}

CircuitBreakerOptions ==
    [ failureThreshold         : FailureThresholdOptions,
      resetTimeout             : ResetTimeoutOptions,
      halfOpenSuccessThreshold : HalfOpenSuccessThresholdOptions ]

NoLB == LoadBalancer(<<>>, "round-robin")

IdleLB ==
    /\ lb = NoLB
    /\ lbOp = [op |-> "new", arg |-> "", ret |-> "", pre |-> lb]
    /\ calls = [start |-> 0, rets |-> <<>>]

\* What a step of Spec leaves in last: the operation, the handler's entry,
\* the target the router chose, the status sent to the caller, the error
\* thrown, the breaker methods called, the health answer; backend is the
\* status the backend answered with (0: there was no answer).
Did(op, h, target, status, error, recorded, health) ==
    [ op |-> op, h |-> h, target |-> target, status |-> status,
      error |-> error, recorded |-> recorded, health |-> health,
      backend |-> 0 ]

NoHealth == [status |-> "", services |-> <<>>]

IdleProxy ==
    /\ services = <<>>
    /\ entries = <<>>
    /\ handlers = {}
    /\ inflight = <<>>
    /\ failRun = <<>>
    /\ last = Did("new", 0, "", 0, "", <<>>, NoHealth)

InitCB ==
    /\ now = 1
    /\ cb \in {CircuitBreaker(o) : o \in CircuitBreakerOptions}
    /\ cbOp = [op |-> "new", pre |-> "CLOSED", ret |-> FALSE]
    /\ hist = <<>>
    /\ IdleLB
    /\ IdleProxy

Tick ==
    /\ now < MaxTime
    /\ now' = now + 1

CBTick ==
    /\ Tick
    /\ cbOp' = [op |-> "tick", pre |-> cb.state, ret |-> FALSE]
    /\ UNCHANGED <<cb, hist, lbVars, pxVars>>

CallIsOpen ==
    LET r == isOpen(cb, now)
    IN  /\ cb' = r.cb
        /\ cbOp' = [op |-> "isOpen", pre |-> cb.state, ret |-> r.ret]
        /\ hist' = IF cb.state # "HALF_OPEN" /\ r.cb.state = "HALF_OPEN"
                   THEN Append(hist, "H")
                   ELSE hist
        /\ UNCHANGED <<now, lbVars, pxVars>>

CallRecordFailure ==
    /\ Len(hist) < MaxHist
    /\ cb' = recordFailure(cb, now)
    /\ cbOp' = [op |-> "recordFailure", pre |-> cb.state, ret |-> FALSE]
    /\ hist' = Append(hist, "F")
    /\ UNCHANGED <<now, lbVars, pxVars>>

CallRecordSuccess ==
    /\ Len(hist) < MaxHist
    /\ cb' = recordSuccess(cb)
    /\ cbOp' = [op |-> "recordSuccess", pre |-> cb.state, ret |-> FALSE]
    /\ hist' = Append(hist, "S")
    /\ UNCHANGED <<now, lbVars, pxVars>>

CallReset ==
    /\ hist # <<>>
    /\ cb' = reset(cb)
    /\ cbOp' = [op |-> "reset", pre |-> cb.state, ret |-> FALSE]
    /\ hist' = <<>>
    /\ UNCHANGED <<now, lbVars, pxVars>>

NextCB ==
    \/ CBTick
    \/ CallIsOpen
    \/ CallRecordFailure
    \/ CallRecordSuccess
    \/ CallReset

SpecCB == InitCB /\ [][NextCB]_vars

(***************************************************************************)
(* SpecLive: one breaker while the clock keeps advancing, gate checks      *)
(* (requests, health queries) keep arriving and forwarded requests keep    *)
(* succeeding. The clock stops at MaxTime, so a failure is recorded only   *)
(* while the clock can still run past that failure's reset timeout; the    *)
(* failures recorded in a row are capped one above failureThreshold.       *)
(***************************************************************************)
LiveTick ==
    /\ Tick
    /\ cbOp' = [op |-> "tick", pre |-> cb.state, ret |-> FALSE]
    /\ UNCHANGED <<cb, hist, lbVars, pxVars>>

LiveIsOpen ==
    LET r == isOpen(cb, now)
    IN  /\ cb' = r.cb
        /\ cbOp' = [op |-> "isOpen", pre |-> cb.state, ret |-> r.ret]
        /\ UNCHANGED <<now, hist, lbVars, pxVars>>

LiveRecordFailure ==
    /\ now + cb.resetTimeout < MaxTime
    /\ cb.failureCount <= cb.failureThreshold
    /\ cb' = recordFailure(cb, now)
    /\ cbOp' = [op |-> "recordFailure", pre |-> cb.state, ret |-> FALSE]
    /\ UNCHANGED <<now, hist, lbVars, pxVars>>

LiveRecordSuccess ==
    /\ cb' = recordSuccess(cb)
    /\ cbOp' = [op |-> "recordSuccess", pre |-> cb.state, ret |-> FALSE]
    /\ UNCHANGED <<now, hist, lbVars, pxVars>>

NextLive ==
    \/ LiveTick
    \/ LiveIsOpen
    \/ LiveRecordFailure
    \/ LiveRecordSuccess

SpecLive ==
    /\ InitCB
    /\ [][NextLive]_vars
    /\ WF_vars(LiveTick)
    /\ WF_vars(LiveIsOpen)
    /\ WF_vars(LiveRecordSuccess)

(***************************************************************************)
(* SpecLB: one load balancer, any sequence of calls                        *)
(***************************************************************************)
Addresses == {"a", "b", "c"}

\* "weighted" stands for any strategy string the switch does not know.
Strategies == {"round-robin", "random", "least-connections", "weighted"}

\* The target arrays a load balancer is constructed with.
TargetLists == UNION {[1..n -> Addresses] : n \in 0..MaxTargets}

IdleCB ==
    /\ cb = CircuitBreaker([failureThreshold |-> 0, resetTimeout |-> 0,
                            halfOpenSuccessThreshold |-> 0])
    /\ cbOp = [op |-> "new", pre |-> "CLOSED", ret |-> FALSE]
    /\ hist = <<>>

InitLB ==
    /\ now = 1
    /\ lb \in {LoadBalancer(ts, st) : ts \in TargetLists, st \in Strategies}
    /\ lbOp = [op |-> "new", arg |-> "", ret |-> "", pre |-> lb]
    /\ calls = [start |-> 0, rets |-> <<>>]
    /\ IdleCB
    /\ IdleProxy

CallGetNextTarget ==
    /\ Len(calls.rets) < MaxCalls
    /\ \A t \in DOMAIN lb.connectionCounts : lb.connectionCounts[t] < MaxConn
    /\ \E r \in 0..(IF lb.strategy = "random" /\ Len(lb.targets) > 0
                    THEN Len(lb.targets) - 1 ELSE 0) :
          LET res == getNextTarget(lb, r)
          IN  /\ lb' = res.lb
              /\ lbOp' = [op |-> "getNextTarget", arg |-> "",
                          ret |-> IF res.threw THEN "throw" ELSE res.ret,
                          pre |-> lb]
              /\ calls' = IF res.threw
                          THEN calls
                          ELSE [calls EXCEPT !.rets = Append(@, res.ret)]
    /\ UNCHANGED <<now, cbVars, pxVars>>

CallReleaseConnection ==
    /\ \E t \in Addresses :
          /\ lb' = releaseConnection(lb, t)
          /\ lbOp' = [op |-> "releaseConnection", arg |-> t, ret |-> "",
                      pre |-> lb]
    /\ UNCHANGED <<now, calls, cbVars, pxVars>>

CallAddTarget ==
    /\ \E t \in Addresses :
          /\ lb' = addTarget(lb, t)
          /\ lbOp' = [op |-> "addTarget", arg |-> t, ret |-> "",
                      pre |-> lb]
    /\ calls' = [start |-> lb'.currentIndex, rets |-> <<>>]
    /\ UNCHANGED <<now, cbVars, pxVars>>

CallRemoveTarget ==
    /\ \E t \in Addresses :
          /\ lb' = removeTarget(lb, t)
          /\ lbOp' = [op |-> "removeTarget", arg |-> t, ret |-> "",
                      pre |-> lb]
    /\ calls' = [start |-> lb'.currentIndex, rets |-> <<>>]
    /\ UNCHANGED <<now, cbVars, pxVars>>

NextLB ==
    \/ CallGetNextTarget
    \/ CallReleaseConnection
    \/ CallAddTarget
    \/ CallRemoveTarget

SpecLB == InitLB /\ [][NextLB]_vars

(***************************************************************************)
(* Spec: the service proxy. A name is registered once here: entries do not *)
(* share state, so what holds of one entry and its handlers does not       *)
(* depend on the entries registered before or after it.                    *)
(***************************************************************************)
Names == {"svc"}

\* The targets arrays and options registerService is called with.
RegisteredTargets == {<<>>, <<"a">>, <<"a", "b">>, <<"a", "a">>}
RegisteredValues == {Array(ts) : ts \in RegisteredTargets} \cup {NotAnArray}
RegisteredOptions ==
    [ loadBalancingStrategy : {"", "random", "least-connections"},
      circuitBreaker : [ failureThreshold : {1, 2},
                         resetTimeout : {1},
                         halfOpenSuccessThreshold : {0, 1} ] ]

\* The status codes a backend answers with.
Statuses == {200, 499, 500, 503}

Init ==
    /\ now = 1
    /\ IdleProxy
    /\ IdleCB
    /\ IdleLB

\* f with key k mapped to v (Map.set).
MapSet(f, k, v) == [x \in (DOMAIN f) \cup {k} |-> IF x = k THEN v ELSE f[x]]

RegisterService ==
    /\ \E name \in Names, targets \in RegisteredValues,
          options \in RegisteredOptions :
          IF registerServiceThrows(targets)
          THEN /\ last' = Did("registerService", 0, "", 0, "invalid targets",
                              <<>>, NoHealth)
               /\ UNCHANGED <<services, entries, failRun>>
          ELSE /\ name \notin DOMAIN services
               /\ entries' = Append(entries,
                                    ServiceEntry(targets.items, options))
               /\ services' = MapSet(services, name, Len(entries) + 1)
               /\ failRun' = Append(failRun, 0)
               /\ last' = Did("registerService", Len(entries) + 1, "", 0, "",
                              <<>>, NoHealth)
    /\ UNCHANGED <<now, handlers, inflight, cbVars, lbVars>>

GetServiceMiddleware ==
    /\ \E name \in Names :
          IF name \in DOMAIN services
          THEN /\ handlers' = handlers \cup {services[name]}
               /\ last' = Did("getServiceMiddleware", services[name], "", 0,
                              "", <<>>, NoHealth)
          ELSE /\ last' = Did("getServiceMiddleware", 0, "", 0,
                              "not registered", <<>>, NoHealth)
               /\ UNCHANGED handlers
    /\ UNCHANGED <<now, services, entries, inflight, failRun, cbVars, lbVars>>

\* A request handed to the forwarding engine: the handler's entry, the
\* target the router returned, and whether the breaker was HALF_OPEN when
\* the router let the request through (a trial request).
Forwarded(h, target, service) ==
    [ h |-> h, target |-> target,
      trial |-> service.circuitBreaker.state = "HALF_OPEN" ]

\* A request reaches the handler bound to entry h: the router runs.
Request ==
    /\ \E h \in handlers :
       \E r \in 0..(IF entries[h].loadBalancer.strategy = "random"
                       /\ Len(entries[h].loadBalancer.targets) > 0
                    THEN Len(entries[h].loadBalancer.targets) - 1 ELSE 0) :
          LET res == router(entries[h], now, r)
          IN  /\ res.threw \/ Len(inflight) < MaxInFlight
              /\ \A t \in DOMAIN res.service.loadBalancer.connectionCounts :
                    res.service.loadBalancer.connectionCounts[t] <= MaxConn
              /\ entries' = [entries EXCEPT ![h] = res.service]
              /\ inflight' = IF res.threw
                             THEN inflight
                             ELSE Append(inflight,
                                         Forwarded(h, res.target, res.service))
              /\ last' = Did("request", h, res.target, res.statusCode,
                             res.error, <<>>, NoHealth)
    /\ UNCHANGED <<now, services, handlers, failRun, cbVars, lbVars>>

\* s without its i-th element.
Without(s, i) == SubSeq(s, 1, i - 1) \o SubSeq(s, i + 1, Len(s))

\* The run of failed forwards after the breaker methods in recorded.
RunAfter(n, recorded) ==
    IF recorded = <<"recordFailure">> THEN n + 1
    ELSE IF recorded = <<"recordSuccess">> THEN 0
    ELSE n

\* The engine reports a transport error for a forwarded request.
EngineError ==
    /\ \E i \in DOMAIN inflight :
          LET h == inflight[i].h
              res == onError(entries[h], inflight[i].target, now)
          IN  /\ entries' = [entries EXCEPT ![h] = res.service]
              /\ inflight' = Without(inflight, i)
              /\ failRun' = [failRun EXCEPT ![h] = RunAfter(@, res.calls)]
              /\ last' = Did("onError", h, inflight[i].target, res.status, "",
                             res.calls, NoHealth)
    /\ UNCHANGED <<now, services, handlers, cbVars, lbVars>>

\* The engine receives the backend's response to a forwarded request.
EngineResponse ==
    /\ \E i \in DOMAIN inflight, statusCode \in Statuses :
          LET h == inflight[i].h
              res == onProxyRes(entries[h], statusCode, now)
          IN  /\ entries' = [entries EXCEPT ![h] = res.service]
              /\ inflight' = Without(inflight, i)
              /\ failRun' = [failRun EXCEPT ![h] = RunAfter(@, res.calls)]
              /\ last' = [Did("onProxyRes", h, inflight[i].target,
                              res.status, "", res.calls, NoHealth)
                            EXCEPT !.backend = statusCode]
    /\ UNCHANGED <<now, services, handlers, cbVars, lbVars>>

\* The health middleware answers a query.
Health ==
    /\ LET of == [name \in DOMAIN services |->
                     healthOf(entries[services[name]], now)]
           reports == [name \in DOMAIN services |-> of[name].report]
           status == IF \E name \in DOMAIN services :
                           reports[name].status = "DOWN"
                     THEN "DEGRADED" ELSE "UP"
       IN  /\ entries' = [e \in DOMAIN entries |->
                             IF \E name \in DOMAIN services : services[name] = e
                             THEN of[CHOOSE name \in DOMAIN services :
                                        services[name] = e].service
                             ELSE entries[e]]
           /\ last' = Did("health", 0, "", 200, "", <<>>,
                          [status |-> status, services |-> reports])
    /\ UNCHANGED <<now, services, handlers, inflight, failRun, cbVars, lbVars>>

ProxyTick ==
    /\ Tick
    /\ last' = Did("tick", 0, "", 0, "", <<>>, NoHealth)
    /\ UNCHANGED <<services, entries, handlers, inflight, failRun, cbVars, lbVars>>

Next ==
    \/ RegisterService
    \/ GetServiceMiddleware
    \/ Request
    \/ EngineError
    \/ EngineResponse
    \/ Health
    \/ ProxyTick

Spec == Init /\ [][Next]_vars

(***************************************************************************)
(* SpecRegistry: the registry over time. Names are registered and          *)
(* registered again, handlers are created before and after, the target     *)
(* lists of the registered load balancers are changed, requests are        *)
(* routed and answered, health is queried. An entry that was replaced      *)
(* stays in entries: the handlers created for it still hold it.            *)
(***************************************************************************)
RegistryNames == {"users", "orders"}

RegistryValues == {NotAnArray, Array(<<>>), Array(<<"a">>), Array(<<"a", "b">>)}

RegistryOptions ==
    [ loadBalancingStrategy : {""},
      circuitBreaker : [ failureThreshold : {1},
                         resetTimeout : {1},
                         halfOpenSuccessThreshold : {1} ] ]

RegistryAddresses == {"b"}

\* The entry registered under name, 0 when there is none.
EntryOf(name) == IF name \in DOMAIN services THEN services[name] ELSE 0

RegistryRegisterService ==
    /\ \E name \in RegistryNames, targets \in RegistryValues,
          options \in RegistryOptions :
          IF registerServiceThrows(targets)
          THEN /\ last' = Did("registerService", EntryOf(name), "", 0,
                              "invalid targets", <<>>, NoHealth)
               /\ UNCHANGED <<services, entries, failRun>>
          ELSE /\ Len(entries) < MaxEntries
               /\ entries' = Append(entries,
                                    ServiceEntry(targets.items, options))
               /\ services' = MapSet(services, name, Len(entries) + 1)
               /\ failRun' = Append(failRun, 0)
               /\ last' = Did("registerService", Len(entries) + 1, "", 0, "",
                              <<>>, NoHealth)
    /\ UNCHANGED <<now, handlers, inflight, cbVars, lbVars>>

RegistryGetServiceMiddleware ==
    /\ \E name \in RegistryNames :
          IF name \in DOMAIN services
          THEN /\ handlers' = handlers \cup {services[name]}
               /\ last' = Did("getServiceMiddleware", services[name], "", 0,
                              "", <<>>, NoHealth)
          ELSE /\ last' = Did("getServiceMiddleware", 0, "", 0,
                              "not registered", <<>>, NoHealth)
               /\ UNCHANGED handlers
    /\ UNCHANGED <<now, services, entries, inflight, failRun, cbVars, lbVars>>

\* services.get(name).loadBalancer.addTarget(t)
RegistryAddTarget ==
    /\ \E name \in DOMAIN services, t \in RegistryAddresses :
          /\ entries' = [entries EXCEPT
                            ![services[name]].loadBalancer = addTarget(@, t)]
          /\ last' = Did("addTarget", services[name], t, 0, "", <<>>,
                         NoHealth)
    /\ UNCHANGED <<now, services, handlers, inflight, failRun, cbVars, lbVars>>

\* services.get(name).loadBalancer.removeTarget(t)
RegistryRemoveTarget ==
    /\ \E name \in DOMAIN services, t \in RegistryAddresses :
          /\ entries' = [entries EXCEPT
                            ![services[name]].loadBalancer = removeTarget(@, t)]
          /\ last' = Did("removeTarget", services[name], t, 0, "", <<>>,
                         NoHealth)
    /\ UNCHANGED <<now, services, handlers, inflight, failRun, cbVars, lbVars>>

\* The backend statuses answered in SpecRegistry.
RegistryStatuses == {200, 500}

\* A request reaches the handler bound to entry h while no other request is
\* being forwarded: the router runs.
RegistryRequest ==
    /\ inflight = <<>>
    /\ \E h \in handlers :
          LET res == router(entries[h], now, 0)
          IN  /\ \A t \in DOMAIN res.service.loadBalancer.connectionCounts :
                    res.service.loadBalancer.connectionCounts[t] <= MaxConn
              /\ entries' = [entries EXCEPT ![h] = res.service]
              /\ inflight' = IF res.threw
                             THEN inflight
                             ELSE <<Forwarded(h, res.target, res.service)>>
              /\ last' = Did("request", h, res.target, res.statusCode,
                             res.error, <<>>, NoHealth)
    /\ UNCHANGED <<now, services, handlers, failRun, cbVars, lbVars>>

\* The engine receives the backend's response to the forwarded request.
RegistryResponse ==
    /\ inflight # <<>>
    /\ \E statusCode \in RegistryStatuses :
          LET h == inflight[1].h
              res == onProxyRes(entries[h], statusCode, now)
          IN  /\ entries' = [entries EXCEPT ![h] = res.service]
              /\ inflight' = <<>>
              /\ failRun' = [failRun EXCEPT ![h] = RunAfter(@, res.calls)]
              /\ last' = [Did("onProxyRes", h, inflight[1].target,
                              res.status, "", res.calls, NoHealth)
                            EXCEPT !.backend = statusCode]
    /\ UNCHANGED <<now, services, handlers, cbVars, lbVars>>

RegistryTick ==
    /\ now < MaxRegistryTime
    /\ now' = now + 1
    /\ last' = Did("tick", 0, "", 0, "", <<>>, NoHealth)
    /\ UNCHANGED <<services, entries, handlers, inflight, failRun, cbVars, lbVars>>

NextRegistry ==
    \/ RegistryRegisterService
    \/ RegistryGetServiceMiddleware
    \/ RegistryAddTarget
    \/ RegistryRemoveTarget
    \/ RegistryRequest
    \/ RegistryResponse
    \/ Health
    \/ RegistryTick

SpecRegistry == Init /\ [][NextRegistry]_vars

(***************************************************************************)
(* Properties of the breaker (SpecCB)                                      *)
(***************************************************************************)
RECURSIVE TrailRun(_, _)
\* The number of trailing x in h.
TrailRun(h, x) ==
    IF h # <<>> /\ h[Len(h)] = x
    THEN 1 + TrailRun(SubSeq(h, 1, Len(h) - 1), x)
    ELSE 0

Rep(x, n) == [i \in 1..n |-> x]

OnlyFailures(h) == \A i \in 1..Len(h) : h[i] = "F"

\* C1: a breaker that starts CLOSED with failureThreshold F stays CLOSED
\* while fewer than F failures have been recorded in a row, is OPEN once
\* F failures have been recorded with no success in between, has
\* failureCount = 0 after a success recorded before the F-th failure, and is
\* still CLOSED after F-1 failures, one success and F-1 more failures.
C1_ThresholdOpens ==
    LET F == cb.failureThreshold
    IN  /\ (OnlyFailures(hist) /\ Len(hist) < F)
              => (cb.state = "CLOSED" /\ cb.failureCount = Len(hist))
        /\ (OnlyFailures(hist) /\ Len(hist) = F) => cb.state = "OPEN"
        /\ \A k \in 0..(F - 1) :
              hist = Rep("F", k) \o <<"S">>
                  => (cb.state = "CLOSED" /\ cb.failureCount = 0)
        /\ hist = Rep("F", F - 1) \o <<"S">> \o Rep("F", F - 1)
              => (cb.state = "CLOSED" /\ cb.failureCount = F - 1)

C1_Witness ==
    /\ cb.failureThreshold = 3
    /\ hist = <<"F", "F", "S", "F", "F">>
    /\ cb.state = "CLOSED"

\* C3: isOpen() on an OPEN breaker returns true and leaves it OPEN while
\* now - lastFailureTime has not exceeded resetTimeout, and moves it to
\* HALF_OPEN and returns false in the same call once it has.
C3_IsOpenLazyTransition ==
    [][ (cbOp'.op = "isOpen" /\ cb.state = "OPEN")
          => IF now - ToNumber(cb.lastFailureTime) > cb.resetTimeout
             THEN cb'.state = "HALF_OPEN" /\ cbOp'.ret = FALSE
             ELSE cb' = cb /\ cbOp'.ret = TRUE ]_vars

C3_Witness ==
    /\ cbOp = [op |-> "isOpen", pre |-> "OPEN", ret |-> FALSE]
    /\ cb.state = "HALF_OPEN"
    /\ now - ToNumber(cb.lastFailureTime) = cb.resetTimeout + 1

\* C4: after the transition to HALF_OPEN, the breaker stays HALF_OPEN while
\* fewer than halfOpenSuccessThreshold successes have been recorded with no
\* failure in between, and is CLOSED with failureCount = 0 and
\* successCount = 0 once that many have been.
C4_HalfOpenCloses ==
    LET k == TrailRun(hist, "S")
        before == SubSeq(hist, 1, Len(hist) - k)
    IN  (before # <<>> /\ before[Len(before)] = "H")
          => IF k < cb.halfOpenSuccessThreshold
             THEN cb.state = "HALF_OPEN" /\ cb.successCount = k
             ELSE /\ cb.state = "CLOSED"
                  /\ cb.failureCount = 0
                  /\ cb.successCount = 0

C4_Witness ==
    /\ cb.halfOpenSuccessThreshold = 2
    /\ Len(hist) >= 3
    /\ SubSeq(hist, Len(hist) - 2, Len(hist)) = <<"H", "S", "S">>
    /\ cbOp.op = "recordSuccess"
    /\ cbOp.pre = "HALF_OPEN"
    /\ cb.state = "CLOSED"

\* C5: one recordFailure() in HALF_OPEN moves the breaker to OPEN with
\* successCount = 0, whatever failureCount and successCount were.
C5_HalfOpenFailureOpens ==
    [][ (cbOp'.op = "recordFailure" /\ cb.state = "HALF_OPEN")
          => (cb'.state = "OPEN" /\ cb'.successCount = 0) ]_vars

C5_Witness ==
    /\ cbOp = [op |-> "recordFailure", pre |-> "HALF_OPEN", ret |-> FALSE]
    /\ Len(hist) >= 3
    /\ SubSeq(hist, Len(hist) - 2, Len(hist)) = <<"H", "S", "F">>
    /\ cb.state = "OPEN"
    /\ cb.failureCount < cb.failureThreshold

(***************************************************************************)
(* Properties of the load balancer (SpecLB)                                *)
(***************************************************************************)
\* How often x occurs among s[from..to].
Occurrences(s, from, to, x) == Cardinality({j \in from..to : s[j] = x})

\* C7: round-robin, N >= 1 targets: the i-th getNextTarget() call since the
\* last construction / addTarget / removeTarget returns the target at list
\* position (cursor + i - 1) mod N, so any N consecutive calls return every
\* list entry exactly once, in list order from the cursor, wrapping.
C7_RoundRobinOrder ==
    LET N == Len(lb.targets)
        rets == calls.rets
    IN  (lb.strategy = "round-robin" /\ N >= 1)
          => /\ \A i \in 1..Len(rets) :
                   rets[i] = lb.targets[((calls.start + i - 1) % N) + 1]
             /\ \A i \in 1..(Len(rets) - N + 1) : \A t \in Addresses :
                   Occurrences(rets, i, i + N - 1, t)
                       = Occurrences(lb.targets, 1, N, t)

C7_Witness ==
    /\ lb.strategy = "round-robin"
    /\ lb.targets = <<"a", "b">>
    /\ calls = [start |-> 0, rets |-> <<"a", "b", "a">>]

\* The least list position (1-indexed) whose counter is minimal.
LeastPosition(l) ==
    CHOOSE k \in DOMAIN l.targets :
        /\ \A j \in DOMAIN l.targets :
              l.connectionCounts[l.targets[k]] <= l.connectionCounts[l.targets[j]]
        /\ \A j \in 1..(k - 1) :
              l.connectionCounts[l.targets[j]] > l.connectionCounts[l.targets[k]]

\* C9: least-connections, two or more targets: getNextTarget() returns the
\* earliest listed target whose counter is minimal over the list, adds 1 to
\* exactly that counter and leaves the other counters, the list and the
\* round-robin cursor as they were.
C9_LeastConnections ==
    [][ (lbOp'.op = "getNextTarget" /\ lb.strategy = "least-connections"
            /\ Len(lb.targets) >= 2)
          => /\ \A i \in DOMAIN lb.targets :
                   /\ lb.targets[i] \in DOMAIN lb.connectionCounts
                   /\ lb.connectionCounts[lb.targets[i]] \in Nat
             /\ lbOp'.ret = lb.targets[LeastPosition(lb)]
             /\ lb'.connectionCounts =
                   [lb.connectionCounts EXCEPT ![lbOp'.ret] = @ + 1]
             /\ lb'.currentIndex = lb.currentIndex
             /\ lb'.targets = lb.targets ]_vars

(***************************************************************************)
(* Properties of the service proxy (Spec)                                  *)
(***************************************************************************)
NoDuplicates(s) == \A i, j \in DOMAIN s : i # j => s[i] # s[j]

\* C2: a request that reaches a handler while its breaker is OPEN and
\* now - lastFailureTime has not exceeded resetTimeout, or after
\* failureThreshold forwarded requests in a row have failed and no more than
\* resetTimeout has passed since the last of them, is answered 503 "circuit
\* open" with no target selected: the entry (load balancer cursor and
\* counters, breaker) is unchanged and nothing is handed to the engine, so
\* no outcome is ever recorded for it.
C2_OpenCircuitRejects ==
    [][ \A h \in handlers :
          LET b == entries[h].circuitBreaker
          IN  ( /\ last'.op = "request"
                /\ last'.h = h
                /\ now - ToNumber(b.lastFailureTime) <= b.resetTimeout
                /\ \/ b.state = "OPEN"
                   \/ failRun[h] >= b.failureThreshold )
              => /\ last'.status = ServiceUnavailable
                 /\ last'.error = "circuit open"
                 /\ last'.target = ""
                 /\ entries' = entries
                 /\ inflight' = inflight
                 /\ failRun' = failRun ]_vars

C2_Witness ==
    /\ last.op = "request"
    /\ last.status = ServiceUnavailable
    /\ last.error = "circuit open"
    /\ last.h \in handlers
    /\ LET e == entries[last.h]
       IN  /\ e.circuitBreaker.state = "OPEN"
           /\ e.circuitBreaker.failureThreshold = 2
           /\ failRun[last.h] = 2
           /\ now - ToNumber(e.circuitBreaker.lastFailureTime)
                 = e.circuitBreaker.resetTimeout
           /\ e.loadBalancer.strategy = "round-robin"
           /\ Len(e.loadBalancer.targets) = 2
           /\ e.loadBalancer.currentIndex = 1

\* C6: when the engine completes a forwarded request, exactly one breaker
\* method is called for it: recordFailure() on a transport error or on a
\* response status >= 500, recordSuccess() on a response status < 500.
C6_OutcomeRecorded ==
    [][ \A h \in DOMAIN entries :
          (last'.op \in {"onError", "onProxyRes"} /\ last'.h = h)
            => LET b == entries[h].circuitBreaker
                   b1 == entries'[h].circuitBreaker
               IN  /\ Len(inflight') = Len(inflight) - 1
                   /\ IF last'.op = "onError" \/ last'.status >= 500
                      THEN /\ last'.recorded = <<"recordFailure">>
                           /\ b1.failureCount = b.failureCount + 1
                           /\ b1.lastFailureTime = Num(now)
                      ELSE /\ last'.recorded = <<"recordSuccess">>
                           /\ b1.failureCount = 0
                           /\ b1.lastFailureTime = b.lastFailureTime ]_vars

C6_Witness ==
    /\ last.op = "onProxyRes"
    /\ last.status = 500
    /\ last.recorded = <<"recordFailure">>
    /\ entries[last.h].circuitBreaker.failureCount = 1
    /\ entries[last.h].circuitBreaker.lastFailureTime = Num(now)
    /\ inflight = <<>>

\* C8: with the least-connections strategy every selected target is
\* released when its forward completes, so whenever no request is in flight
\* every connection counter is 0.
C8_ReleasedWhenIdle ==
    inflight = <<>>
      => \A e \in DOMAIN entries :
            entries[e].loadBalancer.strategy = "least-connections"
              => \A t \in DOMAIN entries[e].loadBalancer.connectionCounts :
                    entries[e].loadBalancer.connectionCounts[t] = 0

\* C10: no service's target list holds the same address twice; a
\* registration whose targets array holds a duplicate is rejected.
C10_NoDuplicateTargets ==
    \A e \in DOMAIN entries :
        /\ NoDuplicates(entries[e].targets)
        /\ NoDuplicates(entries[e].loadBalancer.targets)

(***************************************************************************)
(* Properties of the registry (SpecRegistry)                               *)
(***************************************************************************)
\* C11: registerService called with an empty targets array or with a value
\* that is not an array throws and leaves the registry as it was: no entry
\* is ever created from such a value (no entry holds an empty targets
\* array), and the call changes neither the name-to-entry map nor any
\* entry (targets, load balancer, breaker) nor the handlers.
C11_InvalidTargetsRejected ==
    [][ /\ \A e \in DOMAIN entries' : entries'[e].targets # <<>>
        /\ (last'.op = "registerService" /\ last'.error = "invalid targets")
              => /\ services' = services
                 /\ entries' = entries
                 /\ handlers' = handlers
                 /\ inflight' = inflight ]_vars

C11_Witness ==
    /\ last.op = "registerService"
    /\ last.error = "invalid targets"
    /\ last.h # 0
    /\ \E name \in DOMAIN services : services[name] = last.h
    /\ entries[last.h].targets = <<"a", "b">>
    /\ entries[last.h].circuitBreaker.state = "OPEN"
    /\ entries[last.h].loadBalancer.currentIndex = 1

\* The state of an entry that registerService has just built.
Fresh(e) ==
    /\ e.circuitBreaker.state = "CLOSED"
    /\ e.circuitBreaker.failureCount = 0
    /\ e.circuitBreaker.successCount = 0
    /\ e.circuitBreaker.lastFailureTime = Null
    /\ e.loadBalancer.currentIndex = 0
    /\ \A t \in DOMAIN e.loadBalancer.connectionCounts :
          e.loadBalancer.connectionCounts[t] = 0

\* C12: when registerService succeeds for a name that is already
\* registered, the entry registered under the name afterwards is fresh
\* (breaker CLOSED, both counters 0, no lastFailureTime, cursor 0, every
\* connection counter 0) whatever the replaced entry's state was, and every
\* request routed for a name is gated and balanced by the entry registered
\* under that name at the time of the request.
C12_ReRegistrationFresh ==
    [][ /\ \A name \in DOMAIN services :
              (last'.op = "registerService" /\ services'[name] # services[name])
                => Fresh(entries'[services'[name]])
        /\ last'.op = "request"
              => \E name \in DOMAIN services : services[name] = last'.h ]_vars

\* C13: in the answer to a health query there is one report per registered
\* name; a service is reported DOWN exactly when its breaker is OPEN and no
\* more than resetTimeout has passed since its last failure at the time of
\* the query (isOpen() returns true), and UP otherwise, so a CLOSED or
\* HALF_OPEN breaker, or an OPEN one whose timeout has run out, is UP; the
\* overall status is DEGRADED exactly when some report says DOWN, else UP.
C13_HealthStatus ==
    [][ last'.op = "health"
          => LET reports == last'.health.services
             IN  /\ DOMAIN reports = DOMAIN services
                 /\ \A name \in DOMAIN services :
                       LET b == entries[services[name]].circuitBreaker
                           down == /\ b.state = "OPEN"
                                   /\ now - ToNumber(b.lastFailureTime)
                                         <= b.resetTimeout
                       IN  /\ reports[name].status
                                 = (IF down THEN "DOWN" ELSE "UP")
                           /\ down <=> reports[name].circuitState.state = "OPEN"
                 /\ last'.health.status
                       = (IF \E name \in DOMAIN reports :
                                reports[name].status = "DOWN"
                          THEN "DEGRADED" ELSE "UP") ]_vars

C13_Witness ==
    /\ last.op = "health"
    /\ last.health.status = "DEGRADED"
    /\ DOMAIN last.health.services = RegistryNames
    /\ last.health.services["users"].status = "DOWN"
    /\ last.health.services["users"].circuitState.state = "OPEN"
    /\ last.health.services["orders"].status = "UP"
    /\ last.health.services["orders"].circuitState.state = "HALF_OPEN"

\* C14: the targets reported for a service in the answer to a health query
\* are the current ordered target list of that service's load balancer,
\* after any addTarget and removeTarget calls made on it since registration.
C14_HealthTargetsCurrent ==
    [][ last'.op = "health"
          => \A name \in DOMAIN services :
                last'.health.services[name].targets
                   = getTargets(entries[services[name]].loadBalancer) ]_vars

(***************************************************************************)
(* More properties of the service proxy (Spec)                             *)
(***************************************************************************)
\* C15: when the backend answers a forwarded request with a status >= 500,
\* the caller receives that status and exactly one failure is recorded on
\* the breaker of the handler's entry (one recordFailure() call and no
\* recordSuccess(), failureCount one higher); the proxy itself answers 503,
\* that is a 503 which is not the backend's own answer, only when the
\* router finds the circuit open or when the forward fails with no response.
C15_ServerErrorsPassThrough ==
    [][ /\ (last'.op = "onProxyRes" /\ last'.backend >= 500)
              => /\ last'.status = last'.backend
                 /\ last'.recorded = <<"recordFailure">>
                 /\ entries'[last'.h].circuitBreaker.failureCount
                       = entries[last'.h].circuitBreaker.failureCount + 1
                 /\ \A e \in DOMAIN entries :
                       e # last'.h => entries'[e] = entries[e]
        /\ (last'.status = ServiceUnavailable
              /\ last'.backend # ServiceUnavailable)
              => \/ last'.op = "request" /\ last'.error = "circuit open"
                 \/ last'.op = "onError" /\ last'.backend = 0 ]_vars

C15_Witness ==
    /\ last.op = "onProxyRes"
    /\ last.backend = 500
    /\ last.status = 500
    /\ last.recorded = <<"recordFailure">>
    /\ entries[last.h].circuitBreaker.failureThreshold = 2
    /\ entries[last.h].circuitBreaker.failureCount = 2
    /\ entries[last.h].circuitBreaker.state = "OPEN"

(***************************************************************************)
(* More properties of the load balancer (SpecLB)                           *)
(***************************************************************************)
\* C16: when the load balancer holds exactly one target, getNextTarget()
\* returns that target whatever the strategy is and changes nothing: the
\* cursor, every connection counter and the list are as before.
C16_SingleTarget ==
    [][ (lbOp'.op = "getNextTarget" /\ Len(lb.targets) = 1)
          => /\ lbOp'.ret = lb.targets[1]
             /\ lb'.currentIndex = lb.currentIndex
             /\ lb'.connectionCounts = lb.connectionCounts
             /\ lb'.targets = lb.targets ]_vars

C16_Witness ==
    /\ lbOp.op = "getNextTarget"
    /\ lb.strategy = "least-connections"
    /\ lb.targets = <<"a">>
    /\ lbOp.ret = "a"
    /\ lb.connectionCounts = [t \in {"a"} |-> 0]
    /\ calls.rets = <<"a", "a">>

\* The requests of entry e in flight that were let through while its
\* breaker was HALF_OPEN.
Trials(e) == {i \in DOMAIN inflight : inflight[i].h = e /\ inflight[i].trial}

\* C17: while a breaker is HALF_OPEN only a limited number of trial requests
\* is let through: the requests in flight that the gate admitted in
\* HALF_OPEN are never more than the halfOpenSuccessThreshold successes
\* that close the circuit.
C17_HalfOpenTrialsBounded ==
    \A e \in DOMAIN entries :
        entries[e].circuitBreaker.state = "HALF_OPEN"
          => Cardinality(Trials(e))
                <= entries[e].circuitBreaker.halfOpenSuccessThreshold

(***************************************************************************)
(* More properties of the breaker (SpecCB)                                 *)
(***************************************************************************)
\* C18: a call of isOpen(), recordFailure() or recordSuccess() that changes
\* the breaker's state makes one of four transitions: CLOSED to OPEN in
\* recordFailure() when failureCount reaches failureThreshold, OPEN to
\* HALF_OPEN in isOpen() when more than resetTimeout has passed since the
\* last failure, HALF_OPEN to CLOSED in recordSuccess() when successCount
\* reaches halfOpenSuccessThreshold, HALF_OPEN to OPEN in recordFailure().
\* The clock alone changes no state.
C18_OnlyFourTransitions ==
    [][ (cbOp'.op # "reset" /\ cb'.state # cb.state)
          => \/ /\ cb.state = "CLOSED" /\ cb'.state = "OPEN"
                /\ cbOp'.op = "recordFailure"
                /\ cb'.failureCount = cb.failureThreshold
             \/ /\ cb.state = "OPEN" /\ cb'.state = "HALF_OPEN"
                /\ cbOp'.op = "isOpen"
                /\ now - ToNumber(cb.lastFailureTime) > cb.resetTimeout
             \/ /\ cb.state = "HALF_OPEN" /\ cb'.state = "CLOSED"
                /\ cbOp'.op = "recordSuccess"
                /\ cb.successCount + 1 = cb.halfOpenSuccessThreshold
             \/ /\ cb.state = "HALF_OPEN" /\ cb'.state = "OPEN"
                /\ cbOp'.op = "recordFailure" ]_vars

C18_Witness ==
    /\ hist = <<"F", "H", "F", "H", "S">>
    /\ cbOp.op = "recordSuccess"
    /\ cbOp.pre = "HALF_OPEN"
    /\ cb.state = "CLOSED"
    /\ cb.failureThreshold = 1
    /\ cb.halfOpenSuccessThreshold = 1

\* C20: in every reachable breaker state failureCount and successCount are
\* not both greater than zero; the state recordSuccess() leaves has
\* failureCount = 0 and the state recordFailure() leaves has
\* successCount = 0.
C20_CountersExclusive ==
    /\ ~(cb.failureCount > 0 /\ cb.successCount > 0)
    /\ cbOp.op = "recordSuccess" => cb.failureCount = 0
    /\ cbOp.op = "recordFailure" => cb.successCount = 0

C20_Witness ==
    /\ hist = <<"F", "H", "S", "F">>
    /\ cbOp.op = "recordFailure"
    /\ cbOp.pre = "HALF_OPEN"
    /\ cb.halfOpenSuccessThreshold = 2
    /\ cb.successCount = 0
    /\ cb.failureCount = 1

(***************************************************************************)
(* Interleaved requests on the service proxy (Spec)                        *)
(***************************************************************************)
\* C19: requests of one service interleave only between the router step
\* (gate check and target selection) and the outcome step (onError or
\* onProxyRes), and no counter is corrupted: with round-robin and N >= 2
\* targets every admitted request is given the target at the cursor and
\* moves the cursor on by one modulo N, so that the i-th admission from
\* cursor c gets target[(c + i) mod N] and the next admission reads another
\* cursor value; a load balancer changes only in the step of a request it
\* admits; and each breaker's failureCount is the number of failures
\* recorded for its entry since the last recorded success.
C19_InterleavingKeepsCounters ==
    [][ /\ \A e \in DOMAIN entries' :
              entries'[e].circuitBreaker.failureCount = failRun'[e]
        /\ \A h \in DOMAIN entries :
              LET l == entries[h].loadBalancer
                  N == Len(l.targets)
              IN  /\ ( /\ last'.op = "request" /\ last'.h = h
                       /\ last'.error = ""
                       /\ l.strategy = "round-robin" /\ N >= 2 )
                        => /\ last'.target = l.targets[l.currentIndex + 1]
                           /\ entries'[h].loadBalancer.currentIndex
                                 = (l.currentIndex + 1) % N
                           /\ entries'[h].loadBalancer.currentIndex
                                 # l.currentIndex
                           /\ Len(inflight') = Len(inflight) + 1
                           /\ inflight'[Len(inflight')].target = last'.target
                  /\ entries'[h].loadBalancer # l
                        => /\ last'.op = "request" /\ last'.h = h
                           /\ last'.error = "" ]_vars

C19_Witness ==
    /\ last.op = "onProxyRes"
    /\ last.backend = 500
    /\ last.target = "b"
    /\ Len(inflight) = 1
    /\ inflight[1].h = last.h
    /\ inflight[1].target = "a"
    /\ entries[last.h].loadBalancer.strategy = "round-robin"
    /\ entries[last.h].loadBalancer.targets = <<"a", "b">>
    /\ entries[last.h].loadBalancer.currentIndex = 0
    /\ entries[last.h].circuitBreaker.failureThreshold = 2
    /\ entries[last.h].circuitBreaker.failureCount = 1
    /\ failRun[last.h] = 1

(***************************************************************************)
(* The load balancer's cursor and counters (SpecLB)                        *)
(***************************************************************************)
\* C21: after construction and after any getNextTarget, addTarget,
\* removeTarget (and releaseConnection) calls, a load balancer with a
\* non-empty target list has 0 <= currentIndex < number of targets; a
\* removeTarget that shrinks the list to a length at or below the cursor
\* leaves the cursor at 0.
C21_CursorInRange ==
    /\ Len(lb.targets) > 0
          => (0 <= lb.currentIndex /\ lb.currentIndex < Len(lb.targets))
    /\ ( /\ lbOp.op = "removeTarget"
         /\ Len(lb.targets) < Len(lbOp.pre.targets)
         /\ Len(lb.targets) <= lbOp.pre.currentIndex )
          => lb.currentIndex = 0

C21_Witness ==
    /\ lbOp.op = "removeTarget"
    /\ lbOp.arg = "a"
    /\ lbOp.pre.targets = <<"a", "b", "c">>
    /\ lbOp.pre.currentIndex = 2
    /\ lb.targets = <<"b", "c">>
    /\ lb.currentIndex = 0

\* The addresses in the target list of l.
TargetSet(l) == {l.targets[i] : i \in DOMAIN l.targets}

\* C22: after construction and after any getNextTarget, releaseConnection,
\* addTarget and removeTarget calls, the addresses that have a connection
\* counter are exactly the addresses in the target list and every counter
\* is a non-negative integer; releaseConnection on a counter that is 0, or
\* on an address that is not in the list, changes nothing.
C22_CountersMatchTargets ==
    /\ DOMAIN lb.connectionCounts = TargetSet(lb)
    /\ \A t \in DOMAIN lb.connectionCounts : lb.connectionCounts[t] \in Nat
    /\ ( /\ lbOp.op = "releaseConnection"
         /\ \/ lbOp.arg \notin TargetSet(lbOp.pre)
            \/ Count(lbOp.pre, lbOp.arg) = 0 )
          => lb = lbOp.pre

(***************************************************************************)
(* More properties of the registry (SpecRegistry)                          *)
(***************************************************************************)
\* C23: a health query changes nothing but, possibly, breaker states: the
\* registry, the handlers and the requests in flight are as before, every
\* entry keeps its targets, its load balancer (list, cursor, counters) and
\* its breaker's counters, lastFailureTime and thresholds, and a breaker's
\* state changes only from OPEN to HALF_OPEN and only when more than
\* resetTimeout has passed since its last failure.
C23_HealthFrame ==
    [][ last'.op = "health"
          => /\ services' = services
             /\ handlers' = handlers
             /\ inflight' = inflight
             /\ DOMAIN entries' = DOMAIN entries
             /\ \A e \in DOMAIN entries :
                   LET b == entries[e].circuitBreaker
                       b1 == entries'[e].circuitBreaker
                   IN  /\ entries'[e].targets = entries[e].targets
                       /\ entries'[e].loadBalancer = entries[e].loadBalancer
                       /\ [b1 EXCEPT !.state = b.state] = b
                       /\ b1.state # b.state
                             => /\ b.state = "OPEN"
                                /\ b1.state = "HALF_OPEN"
                                /\ now - ToNumber(b.lastFailureTime)
                                      > b.resetTimeout ]_vars

C23_Witness ==
    /\ last.op = "health"
    /\ inflight = <<>>
    /\ "users" \in DOMAIN services
    /\ last.health.services["users"].status = "UP"
    /\ last.health.services["users"].circuitState.state = "HALF_OPEN"
    /\ last.health.services["users"].circuitState.failureCount = 1
    /\ LET e == entries[services["users"]]
       IN  /\ e.circuitBreaker.state = "HALF_OPEN"
           /\ e.circuitBreaker.failureCount = 1
           /\ now - ToNumber(e.circuitBreaker.lastFailureTime)
                 = e.circuitBreaker.resetTimeout + 1
           /\ e.loadBalancer.targets = <<"a", "b">>
           /\ e.loadBalancer.currentIndex = 1

(***************************************************************************)
(* Outcomes that arrive while the breaker is OPEN (Spec)                   *)
(***************************************************************************)
\* C24 (as claimed): the outcome of a request that completes while its
\* entry's breaker is OPEN leaves that breaker's state, failureCount and
\* lastFailureTime as they were.
C24_LateOutcomesIgnored ==
    [][ \A h \in DOMAIN entries :
          ( /\ last'.op \in {"onError", "onProxyRes"} /\ last'.h = h
            /\ entries[h].circuitBreaker.state = "OPEN" )
            => LET b == entries[h].circuitBreaker
                   b1 == entries'[h].circuitBreaker
               IN  /\ b1.state = b.state
                   /\ b1.failureCount = b.failureCount
                   /\ b1.lastFailureTime = b.lastFailureTime ]_vars

\* C24 (amended): the outcome of a request that completes while its entry's
\* breaker is OPEN leaves the breaker OPEN with successCount 0, but is
\* counted: a failure adds one to failureCount and sets lastFailureTime to
\* the time of that failure, a success sets failureCount to 0 and leaves
\* lastFailureTime as it was.
C24_LateOutcomesCounted ==
    [][ \A h \in DOMAIN entries :
          ( /\ last'.op \in {"onError", "onProxyRes"} /\ last'.h = h
            /\ entries[h].circuitBreaker.state = "OPEN" )
            => LET b == entries[h].circuitBreaker
                   b1 == entries'[h].circuitBreaker
               IN  /\ b1.state = "OPEN"
                   /\ b1.successCount = 0
                   /\ IF last'.recorded = <<"recordFailure">>
                      THEN /\ b1.failureCount = b.failureCount + 1
                           /\ b1.lastFailureTime = Num(now)
                      ELSE /\ last'.recorded = <<"recordSuccess">>
                           /\ b1.failureCount = 0
                           /\ b1.lastFailureTime = b.lastFailureTime ]_vars

C24_Witness ==
    /\ last.op = "onProxyRes"
    /\ last.recorded = <<"recordFailure">>
    /\ inflight = <<>>
    /\ LET b == entries[last.h].circuitBreaker
       IN  /\ b.state = "OPEN"
           /\ b.failureThreshold = 1
           /\ b.failureCount = 2
           /\ b.resetTimeout = 1
           /\ b.lastFailureTime = Num(2)
           /\ now = 2

(***************************************************************************)
(* Handlers and re-registration (SpecRegistry)                             *)
(***************************************************************************)
\* C25: whenever a handler routes a request or records its outcome, the
\* entry whose breaker and load balancer it uses is the entry registered
\* at that moment under a name (the health snapshot reports the breakers
\* of exactly these entries); this also after the name was registered again.
C25_HandlerUsesRegisteredEntry ==
    [][ last'.op \in {"request", "onError", "onProxyRes"}
          => \E name \in DOMAIN services : services[name] = last'.h ]_vars

(***************************************************************************)
(* Removing a target during a rotation (SpecLB)                            *)
(***************************************************************************)
\* C26: with the round-robin strategy, removeTarget(t) for a target t that
\* is in the list and is not the target at the cursor leaves the target
\* that the next getNextTarget() returns as it was before the removal.
C26_RemovalKeepsNextTarget ==
    [][ ( /\ lbOp'.op = "removeTarget"
          /\ lb.strategy = "round-robin"
          /\ lbOp'.arg \in TargetSet(lb)
          /\ lbOp'.arg # TargetAt(lb, lb.currentIndex) )
          => getNextTarget(lb', 0).ret = getNextTarget(lb, 0).ret ]_vars

(***************************************************************************)
(* What each breaker state implies (SpecCB)                                *)
(***************************************************************************)
\* C27: in every reachable breaker state, after any isOpen, recordFailure,
\* recordSuccess and reset calls with thresholds >= 1: a CLOSED breaker has
\* failureCount < failureThreshold; successCount > 0 only in HALF_OPEN and
\* then below halfOpenSuccessThreshold; an OPEN breaker has a
\* lastFailureTime.
C27_StateImplications ==
    (cb.failureThreshold >= 1 /\ cb.halfOpenSuccessThreshold >= 1)
      => /\ cb.state = "CLOSED" => cb.failureCount < cb.failureThreshold
         /\ cb.successCount > 0
               => /\ cb.state = "HALF_OPEN"
                  /\ cb.successCount < cb.halfOpenSuccessThreshold
         /\ cb.state = "OPEN" => cb.lastFailureTime # Null

C27_Witness ==
    /\ cbOp.op = "reset"
    /\ cbOp.pre = "OPEN"
    /\ cb.failureThreshold = 3
    /\ cb.state = "CLOSED"
    /\ cb.failureCount = 0
    /\ cb.lastFailureTime = Null

(***************************************************************************)
(* The circuit recovers (SpecLive)                                         *)
(***************************************************************************)
\* C28: a circuit does not stay OPEN once failures stop: while time
\* advances and gate checks keep arriving, either failures keep being
\* recorded or isOpen() returns false again and again (an OPEN breaker has
\* become HALF_OPEN); and while the admitted requests keep succeeding,
\* either failures keep being recorded or the breaker is CLOSED again and
\* again.
C28_CircuitRecovers ==
    /\ \/ []<>(cbOp.op = "isOpen" /\ cbOp.ret = FALSE /\ cb.state # "OPEN")
       \/ []<>(cbOp.op = "recordFailure")
    /\ \/ []<>(cb.state = "CLOSED")
       \/ []<>(cbOp.op = "recordFailure")

C28_Witness ==
    /\ cbOp.op = "recordSuccess"
    /\ cbOp.pre = "HALF_OPEN"
    /\ cb.state = "CLOSED"
    /\ cb.halfOpenSuccessThreshold = 2
    /\ cb.failureThreshold = 2
    /\ cb.lastFailureTime = Num(2)
    /\ now = 5

====
